---- MODULE Spec2Model ----
(***************************************************************************)
(* Model of moflask.jwt: organization paths, the Session class with its    *)
(* role checks, and the token codec (from_raw_token / to_token_data).      *)
(*                                                                         *)
(* Encoding of Python values:                                              *)
(*   - an organization path is a Python str; it is modelled as the         *)
(*     sequence of its characters, so that str.split(">") and the          *)
(*     f"{a}>{b}" join of iterate_parents are computed, not assumed;       *)
(*   - opaque strings (identity, session id, role names) are TLA+ strings; *)
(*   - None is the value None below; in a position typed as a path it is   *)
(*     NoneOrg, a sequence that is no string over Chars;                   *)
(*   - a dict is a function, dict keys are its DOMAIN; a dynamically typed *)
(*     value whose shape matters is tagged with its Python type;           *)
(*   - a raised exception is a record with the field exc.                  *)
(***************************************************************************)
EXTENDS Integers, Sequences, FiniteSets, TLC

VARIABLES session, token, result, pc

\* the request a guarded route serves: the declaration of the route, the
\* request, the callback registered with the manager, flask.g's loaded user,
\* the position in the wrapper, the calls made so far and the response
VARIABLES route, request, manager, g, gpc, log, response

\* the callbacks registered with the manager so far, in order
VARIABLES callbacks

\* the other components, each with the objects it works on:
\*   wsgi.ProxyFix: the middleware and the WSGI environ it updates in place
\*   requests.rest.Client: the client and the calls of its session's request
\*   flask.BaseApp: the app with its config
\*   sqlalchemy.DateTimeUTC: the value stored in the column
\*   flask_sqlalchemy.PingConnectionHandler: the connection being checked
VARIABLES fix, environ, client, mock_calls, app, row, connection

gvars == <<route, request, manager, g, gpc, log, response, callbacks>>

ovars == <<fix, environ, client, mock_calls, app, row, connection>>

vars == <<session, token, result, pc, route, request, manager, g, gpc, log, response,
          callbacks, fix, environ, client, mock_calls, app, row, connection>>

----------------------------------------------------------------------------
(* Bounds and input alphabets *)

MaxDepth == 3
MaxOrgs == 2
MaxTokenOrgs == 1
\* how many push-context callbacks an application registers at most
MaxCallbacks == 2

Sep == ">"
Segs == {<<"a">>, <<"a", "b">>}
Chars == {"a", "b", Sep}
Roles == {"r1", "r2"}

None == "<None>"
NoneOrg == <<"<None>">>

Identities == {"user-id"}
CustomIds == {"s1"}
GeneratedIds == {"g1", "g2"}

Range(f) == {f[x] : x \in DOMAIN f}

----------------------------------------------------------------------------
(* Organization paths *)

\* str.split(">"): the maximal runs between separators; "" splits to [""].
RECURSIVE SplitFrom(_, _, _)
SplitFrom(s, cur, acc) ==
    IF s = <<>> THEN Append(acc, cur)
    ELSE IF Head(s) = Sep THEN SplitFrom(Tail(s), <<>>, Append(acc, cur))
    ELSE SplitFrom(Tail(s), Append(cur, Head(s)), acc)

split(s) == SplitFrom(s, <<>>, <<>>)

\* itertools.accumulate(parts, lambda a, b: f"{a}>{b}")
RECURSIVE accumulate(_)
accumulate(parts) ==
    IF Len(parts) = 0 THEN <<>>
    ELSE IF Len(parts) = 1 THEN <<parts[1]>>
    ELSE LET init == accumulate(SubSeq(parts, 1, Len(parts) - 1))
         IN  Append(init, init[Len(init)] \o <<Sep>> \o parts[Len(parts)])

\* variant of iterate_parents: the last part is kept whatever include_self is
iterate_parents_keep(org, include_self) ==
    accumulate(split(org))

iterate_parents(org, include_self) ==
    LET parts == split(org)
        kept == IF ~include_self THEN SubSeq(parts, 1, Len(parts) - 1) ELSE parts
    IN  accumulate(kept)

\* variant of ancestors: the organizations themselves are included
ancestors_self(orgs) == UNION {Range(iterate_parents(org, TRUE)) : org \in Range(orgs)}

ancestors(orgs) == UNION {Range(iterate_parents(org, FALSE)) : org \in Range(orgs)}

\* The paths of the model, up to MaxDepth segments: the chain a, a>a, a>a>a..
\* and at each level the sibling whose last segment is "ab", a name that has
\* the string "a" as a prefix without being below it.
RECURSIVE PathsOfDepth(_)
PathsOfDepth(n) ==
    IF n = 1 THEN Segs
    ELSE {<<"a", Sep>> \o p : p \in PathsOfDepth(n - 1)}

Paths == UNION {PathsOfDepth(n) : n \in 1..MaxDepth}

----------------------------------------------------------------------------
(* Python values *)

KeyError(k) == [exc |-> "KeyError", key |-> k]
AttributeError(a) == [exc |-> "AttributeError", attr |-> a]

Raised(v) == "exc" \in DOMAIN v

PyDict(f) == [type |-> "dict", val |-> f]
PyList(l) == [type |-> "list", val |-> l]
PyNone == [type |-> "NoneType"]

\* bool(v) for a tagged value and for an optional str
Truthy(v) ==
    CASE v.type = "dict" -> DOMAIN v.val # {}
      [] v.type = "list" -> Len(v.val) # 0
      [] OTHER -> FALSE

TruthyStr(v) == v # None /\ v # ""

frozenset(iterable) == Range(iterable)

----------------------------------------------------------------------------
(* class Session *)

IsSession(v) == DOMAIN v = {"identity", "roles", "session_id"}

\* Session.__init__; uuid4 is the value str(uuid.uuid4()) would return.
Session_init(identity, roles, custom_uuid, uuid4) ==
    IF Truthy(roles) /\ roles.type # "dict" THEN AttributeError("items")
    ELSE [identity |-> identity,
          roles |-> IF Truthy(roles)
                    THEN [org \in DOMAIN roles.val |-> frozenset(roles.val[org])]
                    ELSE << >>,
          session_id |-> IF TruthyStr(custom_uuid) THEN custom_uuid ELSE uuid4]

\* variant of from_raw_token: the claims are read with dict.get
from_raw_token_get(tok, uuid4) ==
    IF "user_claims" \notin DOMAIN tok THEN KeyError("user_claims")
    ELSE LET claims == tok["user_claims"] IN
         Session_init(IF "identity" \in DOMAIN tok THEN tok["identity"] ELSE None,
                      IF "roles" \in DOMAIN claims THEN claims["roles"] ELSE PyNone,
                      IF "session_id" \in DOMAIN claims THEN claims["session_id"] ELSE None,
                      uuid4)

from_raw_token(tok, uuid4) ==
    IF "user_claims" \notin DOMAIN tok THEN KeyError("user_claims")
    ELSE LET claims == tok["user_claims"] IN
         IF "identity" \notin DOMAIN tok THEN KeyError("identity")
         ELSE IF "roles" \notin DOMAIN claims THEN KeyError("roles")
         ELSE IF "session_id" \notin DOMAIN claims THEN KeyError("session_id")
         ELSE Session_init(tok["identity"], claims["roles"], claims["session_id"], uuid4)

\* variants of has_any_role_of: no inheritance from ancestors; no
\* empty-list rule; every organization has to match instead of any
has_any_role_of_own(self, roles, org) ==
    LET rs == frozenset(roles)
        orgs == IF org # NoneOrg THEN {org} ELSE DOMAIN self.roles
    IN  \E o \in orgs :
            /\ o \in DOMAIN self.roles
            /\ (rs = {} \/ self.roles[o] \cap rs # {})

has_any_role_of_nonempty(self, roles, org) ==
    LET rs == frozenset(roles)
        orgs == IF org # NoneOrg THEN Range(iterate_parents(org, TRUE))
                ELSE DOMAIN self.roles
    IN  \E o \in orgs :
            /\ o \in DOMAIN self.roles
            /\ self.roles[o] \cap rs # {}

has_any_role_of_all(self, roles, org) ==
    LET rs == frozenset(roles)
        orgs == IF org # NoneOrg THEN Range(iterate_parents(org, TRUE))
                ELSE DOMAIN self.roles
    IN  \A o \in orgs :
            o \in DOMAIN self.roles => (rs = {} \/ self.roles[o] \cap rs # {})

has_any_role_of(self, roles, org) ==
    LET rs == frozenset(roles)
        orgs == IF org # NoneOrg THEN Range(iterate_parents(org, TRUE))
                ELSE DOMAIN self.roles
    IN  \E o \in orgs :
            /\ o \in DOMAIN self.roles
            /\ (rs = {} \/ self.roles[o] \cap rs # {})

\* variants of organizations_for_roles: descendants are not removed; an
\* organization is removed when any key of the role map is above it
organizations_for_roles_uncleaned(self, admitted_roles) ==
    LET roles == frozenset(admitted_roles)
        orgs == {o \in DOMAIN self.roles : roles = {} \/ self.roles[o] \cap roles # {}}
    IN  orgs

organizations_for_roles_anykey(self, admitted_roles) ==
    LET roles == frozenset(admitted_roles)
        orgs == {o \in DOMAIN self.roles : roles = {} \/ self.roles[o] \cap roles # {}}
        cleaned == {o \in orgs :
                        ~ \E p \in Range(iterate_parents(o, FALSE)) : p \in DOMAIN self.roles}
    IN  cleaned

organizations_for_roles(self, admitted_roles) ==
    LET roles == frozenset(admitted_roles)
        orgs == {o \in DOMAIN self.roles : roles = {} \/ self.roles[o] \cap roles # {}}
        cleaned == {o \in orgs : ~ \E p \in Range(iterate_parents(o, FALSE)) : p \in orgs}
    IN  cleaned

\* list(roles) of a frozenset: the elements in an iteration order the
\* interpreter picks; ListOrders is every choice it can make.
Perms(S) == {l \in [1..Cardinality(S) -> S] : Range(l) = S}

ListOrders(self) ==
    {f \in [DOMAIN self.roles -> UNION {Perms(self.roles[o]) : o \in DOMAIN self.roles}] :
        \A o \in DOMAIN self.roles : f[o] \in Perms(self.roles[o])}

\* variants of to_token_data: organizations without roles are left out; sub
\* is left to the default identity loader, which returns None
to_token_data_nonempty(self, order) ==
    [identity |-> self.identity,
     sub |-> self.identity,
     user_claims |-> [session_id |-> self.session_id,
                      roles |-> PyDict([org \in {o \in DOMAIN self.roles : self.roles[o] # {}}
                                            |-> order[org]])]]

to_token_data_nosub(self, order) ==
    [identity |-> self.identity,
     sub |-> None,
     user_claims |-> [session_id |-> self.session_id,
                      roles |-> PyDict([org \in DOMAIN self.roles |-> order[org]])]]

to_token_data(self, order) ==
    [identity |-> self.identity,
     sub |-> self.identity,
     user_claims |-> [session_id |-> self.session_id,
                      roles |-> PyDict([org \in DOMAIN self.roles |-> order[org]])]]

----------------------------------------------------------------------------
(* Inputs *)

\* the subsets of S with at most n elements
RECURSIVE SubsetsUpTo(_, _)
SubsetsUpTo(S, n) ==
    IF n = 0 THEN {{}}
    ELSE LET smaller == SubsetsUpTo(S, n - 1)
         IN  smaller \cup {T \cup {x} : T \in smaller, x \in S}

RoleLists == {<<>>, <<"r1">>, <<"r2">>, <<"r1", "r2">>}
AdmittedRoles == RoleLists

RoleDicts(orgs, n) == UNION {[D -> RoleLists] : D \in SubsetsUpTo(orgs, n)}

\* roles arguments of the constructor: a dict or the default None
RolesArgs == {PyDict(f) : f \in RoleDicts(Paths, MaxOrgs)} \cup {PyNone}

UuidArgs == {None, ""} \cup CustomIds

OrgArgs == Paths \cup {NoneOrg}

\* every str over Chars of at most MaxDepth characters, "" included
RECURSIVE StringsOfLen(_)
StringsOfLen(n) ==
    IF n = 0 THEN {<<>>}
    ELSE {str \o <<c>> : str \in StringsOfLen(n - 1), c \in Chars}

PathStrings == Paths \cup UNION {StringsOfLen(n) : n \in 0..MaxDepth}

\* the lists of at most MaxOrgs + 1 paths, repetitions included
PathLists == UNION {[1..n -> Paths] : n \in 0..(MaxOrgs + 1)}

\* raw tokens as handed over by the token verification: any of the read keys
\* may be missing, roles and session_id may have another shape
TokenPaths == {p \in Paths : Len(split(p)) <= 2}

TokenRoles ==
    {PyDict(f) : f \in RoleDicts(TokenPaths, MaxTokenOrgs)}
        \cup {PyNone, PyList(<<>>), PyList(<<"r1">>)}

TokenIdentities == Identities \cup {None}

UserClaims ==
    [session_id : UuidArgs, roles : TokenRoles]
        \cup [session_id : UuidArgs] \cup [roles : TokenRoles]

RawTokens ==
    [identity : TokenIdentities, sub : TokenIdentities, user_claims : UserClaims]
        \cup [sub : TokenIdentities, user_claims : UserClaims]
        \cup [identity : TokenIdentities, sub : TokenIdentities]

----------------------------------------------------------------------------
(* State machine *)

NoSession == [none |-> "session"]
NoToken == [none |-> "token"]
NoResult == [op |-> "none"]

NoRoute == [none |-> "route"]
NoRequest == [none |-> "request"]
NoUser == [none |-> "user"]
NoResponse == [status |-> 0]

NoFix == [none |-> "fix"]
NoEnviron == [none |-> "environ"]
NoClient == [none |-> "client"]
NoApp == [none |-> "app"]
NoRow == [none |-> "row"]
NoConnection == [none |-> "connection"]

Init ==
    /\ session = NoSession
    /\ token = NoToken
    /\ result = NoResult
    /\ pc = "idle"
    /\ route = NoRoute
    /\ request = NoRequest
    /\ manager = "default"
    /\ g = NoUser
    /\ gpc = "off"
    /\ log = <<>>
    /\ response = NoResponse
    /\ callbacks = <<>>
    /\ fix = NoFix
    /\ environ = NoEnviron
    /\ client = NoClient
    /\ mock_calls = <<>>
    /\ app = NoApp
    /\ row = NoRow
    /\ connection = NoConnection

\* no call is under way: the code is single-threaded, a return value is
\* taken by the caller before the next call is made
Idle == result = NoResult

\* Session(identity, roles, custom_uuid)
NewSession ==
    /\ pc = "idle"
    /\ Idle
    /\ \E identity \in TokenIdentities, roles \in RolesArgs,
          custom_uuid \in UuidArgs, uuid4 \in GeneratedIds :
        /\ session' = Session_init(identity, roles, custom_uuid, uuid4)
        /\ result' = [op |-> "Session", custom_uuid |-> custom_uuid]
    /\ pc' = "constructed"
    /\ UNCHANGED token
    /\ UNCHANGED <<gvars, ovars>>

\* the verified claims of a request arrive
ReceiveToken ==
    /\ pc = "idle"
    /\ Idle
    /\ \E t \in RawTokens : token' = t
    /\ pc' = "received"
    /\ UNCHANGED <<session, result>>
    /\ UNCHANGED <<gvars, ovars>>

\* create_session: the user lookup loader builds the session of the request
CreateSession ==
    /\ pc = "received"
    /\ Idle
    /\ \E uuid4 \in GeneratedIds :
        LET s == from_raw_token(token, uuid4) IN
        /\ result' = [op |-> "from_raw_token", src |-> "received", arg |-> token,
                       value |-> s]
        /\ session' = IF Raised(s) THEN session ELSE s
        /\ pc' = IF Raised(s) THEN "failed" ELSE "decoded"
    /\ UNCHANGED token
    /\ UNCHANGED <<gvars, ovars>>

HasSession == pc \in {"constructed", "decoded"}

\* the caller takes the value the last call returned
Return ==
    /\ result # NoResult
    /\ result' = NoResult
    /\ UNCHANGED <<session, token, pc>>
    /\ UNCHANGED <<gvars, ovars>>

\* variant of the call: the answer for an organization is kept in the role
\* map of the session
HasAnyRoleOf_caching ==
    /\ HasSession
    /\ Idle
    /\ \E roles \in AdmittedRoles, org \in OrgArgs :
        LET value == has_any_role_of(session, roles, org) IN
        /\ result' = [op |-> "has_any_role_of", roles |-> roles, org |-> org,
                      value |-> value]
        /\ session' = IF value /\ org # NoneOrg /\ org \notin DOMAIN session.roles
                       THEN [session EXCEPT !.roles =
                                [o \in DOMAIN session.roles \cup {org} |->
                                    IF o = org THEN frozenset(roles) ELSE session.roles[o]]]
                       ELSE session
    /\ UNCHANGED <<token, pc>>
    /\ UNCHANGED <<gvars, ovars>>

HasAnyRoleOf ==
    /\ HasSession
    /\ Idle
    /\ \E roles \in AdmittedRoles, org \in OrgArgs :
        result' = [op |-> "has_any_role_of", roles |-> roles, org |-> org,
                   value |-> has_any_role_of(session, roles, org)]
    /\ UNCHANGED <<session, token, pc>>
    /\ UNCHANGED <<gvars, ovars>>

OrganizationsForRoles ==
    /\ HasSession
    /\ Idle
    /\ \E admitted_roles \in AdmittedRoles :
        result' = [op |-> "organizations_for_roles", roles |-> admitted_roles,
                   value |-> organizations_for_roles(session, admitted_roles)]
    /\ UNCHANGED <<session, token, pc>>
    /\ UNCHANGED <<gvars, ovars>>

\* session_to_token: the claims loader serialises the session
SessionToToken ==
    /\ HasSession
    /\ Idle
    /\ \E order \in ListOrders(session) :
        result' = [op |-> "to_token_data", value |-> to_token_data(session, order)]
    /\ UNCHANGED <<session, token, pc>>
    /\ UNCHANGED <<gvars, ovars>>

\* a token issued from the session comes back and is decoded
DecodeIssued ==
    /\ HasSession
    /\ result.op = "to_token_data"
    /\ \E uuid4 \in GeneratedIds :
        result' = [op |-> "from_raw_token", src |-> "issued", arg |-> result.value,
                   value |-> from_raw_token(result.value, uuid4)]
    /\ UNCHANGED <<session, token, pc>>
    /\ UNCHANGED <<gvars, ovars>>

\* iterate_parents(org, include_self), the iterator read to its end
IterateParents ==
    /\ pc = "idle"
    /\ Idle
    /\ \E org \in PathStrings, include_self \in BOOLEAN :
        result' = [op |-> "iterate_parents", org |-> org, include_self |-> include_self,
                   value |-> iterate_parents(org, include_self)]
    /\ UNCHANGED <<session, token, pc>>
    /\ UNCHANGED <<gvars, ovars>>

\* ancestors(orgs)
Ancestors ==
    /\ pc = "idle"
    /\ Idle
    /\ \E orgs \in PathLists :
        result' = [op |-> "ancestors", orgs |-> orgs, value |-> ancestors(orgs)]
    /\ UNCHANGED <<session, token, pc>>
    /\ UNCHANGED <<gvars, ovars>>

Next ==
    \/ NewSession
    \/ ReceiveToken
    \/ CreateSession
    \/ HasAnyRoleOf
    \/ OrganizationsForRoles
    \/ SessionToToken
    \/ DecodeIssued
    \/ IterateParents
    \/ Ancestors
    \/ Return

Spec == Init /\ [][Next]_vars

----------------------------------------------------------------------------
(* The hierarchy, stated on the strings themselves *)

\* p is a proper ancestor of o: a proper prefix of o that ends where a
\* separator of o begins
IsProperAncestor(p, o) ==
    /\ Len(p) < Len(o)
    /\ SubSeq(o, 1, Len(p)) = p
    /\ o[Len(p) + 1] = Sep

IsSelfOrAncestor(p, o) == p = o \/ IsProperAncestor(p, o)

\* the organization's own role set qualifies for the admitted roles
Qualifies(self, admitted, o) ==
    /\ o \in DOMAIN self.roles
    /\ (admitted = {} \/ self.roles[o] \cap admitted # {})

\* S covers exactly the organizations the session is authorized for
CoversAuthorized(self, roles, S) ==
    \A o \in Paths :
        has_any_role_of(self, roles, o) <=> \E m \in S : IsSelfOrAncestor(m, o)

SmallerSets(S) ==
    IF S = {} THEN {} ELSE SubsetsUpTo(Paths, Cardinality(S) - 1)

----------------------------------------------------------------------------
(* Claims about the role checks *)

\* C1: organizations_for_roles returns only organizations whose own role set
\* qualifies for the admitted roles (any key when the admitted roles are
\* empty), and no returned organization is a proper ancestor of another.
C1_QualifyingAntichain ==
    result.op = "organizations_for_roles" =>
        /\ \A o \in result.value : Qualifies(session, Range(result.roles), o)
        /\ \A x, y \in result.value : ~IsProperAncestor(x, y)

\* a qualifying organization was left out because its ancestor is returned
C1_Witness ==
    /\ result.op = "organizations_for_roles"
    /\ \E o \in DOMAIN session.roles : \E m \in result.value :
        /\ Qualifies(session, Range(result.roles), o)
        /\ o \notin result.value
        /\ IsProperAncestor(m, o)

\* C2: an organization passes has_any_role_of exactly when it is a returned
\* organization or a descendant of one, and no set with fewer organizations
\* covers the same organizations.
C2_MinimalCover ==
    result.op = "organizations_for_roles" =>
        /\ CoversAuthorized(session, result.roles, result.value)
        /\ \A S \in SmallerSets(result.value) :
                ~CoversAuthorized(session, result.roles, S)

\* two organizations are returned and one outside the role map is covered
C2_Witness ==
    /\ result.op = "organizations_for_roles"
    /\ Cardinality(result.value) = 2
    /\ \E o \in Paths \ DOMAIN session.roles :
        has_any_role_of(session, result.roles, o)

\* C3: with admitted roles and an organization given, the check is true
\* exactly when the roles stored for the organization and its ancestors,
\* taken together, contain an admitted role; roles stored at descendants
\* do not count.
C3_InheritedRoles ==
    (/\ result.op = "has_any_role_of"
     /\ result.org # NoneOrg
     /\ result.roles # <<>>) =>
        LET effective == UNION {session.roles[p] :
                p \in {q \in DOMAIN session.roles : IsSelfOrAncestor(q, result.org)}}
        IN  result.value = (effective \cap Range(result.roles) # {})

\* the role comes from a proper ancestor only
C3_Witness ==
    /\ result.op = "has_any_role_of"
    /\ result.org # NoneOrg
    /\ result.roles # <<>>
    /\ result.value = TRUE
    /\ ~Qualifies(session, Range(result.roles), result.org)

\* C4: with no admitted roles and an organization given, the check is true
\* exactly when the organization or one of its ancestors is a key of the
\* role map, whatever its role set.
C4_EmptyAdmittedRoles ==
    (/\ result.op = "has_any_role_of"
     /\ result.org # NoneOrg
     /\ result.roles = <<>>) =>
        result.value = (\E p \in DOMAIN session.roles : IsSelfOrAncestor(p, result.org))

\* the only key on the way up has an empty role set
C4_Witness ==
    /\ result.op = "has_any_role_of"
    /\ result.org # NoneOrg
    /\ result.roles = <<>>
    /\ result.value = TRUE
    /\ \A p \in DOMAIN session.roles : session.roles[p] = {}

\* C5: without an organization, the check is true exactly when some key of
\* the role map has an admitted role, or, with no admitted roles, when the
\* role map has a key at all; it is false for an empty role map.
C5_AnyOrganization ==
    (/\ result.op = "has_any_role_of"
     /\ result.org = NoneOrg) =>
        /\ result.value =
            IF result.roles = <<>> THEN DOMAIN session.roles # {}
            ELSE \E o \in DOMAIN session.roles :
                    session.roles[o] \cap Range(result.roles) # {}
        /\ (DOMAIN session.roles = {} => result.value = FALSE)

\* admitted roles are given and only a lower organization holds one
C5_Witness ==
    /\ result.op = "has_any_role_of"
    /\ result.org = NoneOrg
    /\ result.roles # <<>>
    /\ result.value = TRUE
    /\ \E o \in DOMAIN session.roles :
        /\ Len(split(o)) > 1
        /\ session.roles[o] \cap Range(result.roles) # {}
        /\ \A p \in DOMAIN session.roles \ {o} : session.roles[p] = {}

----------------------------------------------------------------------------
(* Claims about the token codec *)

SameSession(s1, s2) ==
    /\ IsSession(s1) /\ IsSession(s2)
    /\ s1.identity = s2.identity
    /\ s1.session_id = s2.session_id
    /\ s1.roles = s2.roles

\* C6: decoding the claims a session serialises to gives a session with the
\* same identity, session id and role sets, also for an anonymous session
\* and for organizations with an empty role set.
C6_SessionRoundTrip ==
    (result.op = "from_raw_token" /\ result.src = "issued") =>
        SameSession(result.value, session)

\* an anonymous session with an organization without roles went round
C6_Witness ==
    /\ result.op = "from_raw_token"
    /\ result.src = "issued"
    /\ session.identity = None
    /\ \E o \in DOMAIN session.roles : session.roles[o] = {}

\* the claims wire shape: identity and sub with the same value, a session id
\* string and a mapping of organizations to role lists
WireShape(t) ==
    /\ DOMAIN t = {"identity", "sub", "user_claims"}
    /\ t.identity = t.sub
    /\ DOMAIN t.user_claims = {"session_id", "roles"}
    /\ t.user_claims.session_id # None
    /\ t.user_claims.roles.type = "dict"

\* equality of claims, role lists compared as sets
SameClaims(t1, t2) ==
    /\ t1.identity = t2.identity
    /\ t1.sub = t2.sub
    /\ t1.user_claims.session_id = t2.user_claims.session_id
    /\ DOMAIN t1.user_claims.roles.val = DOMAIN t2.user_claims.roles.val
    /\ \A o \in DOMAIN t1.user_claims.roles.val :
        Range(t1.user_claims.roles.val[o]) = Range(t2.user_claims.roles.val[o])

\* C7: serialising the session decoded from a raw token of the wire shape
\* gives that token back, role lists compared as sets.
C7_TokenRoundTrip ==
    (/\ pc = "decoded"
     /\ WireShape(token)
     /\ result.op = "to_token_data") =>
        SameClaims(result.value, token)

\* the keys from_raw_token reads
MissingKey(t) ==
    \/ "user_claims" \notin DOMAIN t
    \/ "identity" \notin DOMAIN t
    \/ "roles" \notin DOMAIN t.user_claims
    \/ "session_id" \notin DOMAIN t.user_claims

WrongShape(t) ==
    /\ ~MissingKey(t)
    /\ \/ t.user_claims.roles.type # "dict"
       \/ t.user_claims.session_id = None

MalformedTokenError == [exc |-> "MalformedTokenError"]

\* C8 as stated: claims that lack a required field or have it in the wrong
\* shape are refused with a MalformedTokenError and give no session.
C8_MalformedTokenError ==
    (/\ result.op = "from_raw_token"
     /\ result.src = "received"
     /\ (MissingKey(token) \/ WrongShape(token))) =>
        /\ result.value = MalformedTokenError
        /\ session = NoSession

\* C8 as the code has it: claims that lack the user_claims, identity, roles
\* or session_id key fail with a KeyError, and a roles value that is a
\* non-empty list fails with an AttributeError; no session is produced. A
\* null or empty roles value and a null session id are accepted.
C8_KeyError ==
    (result.op = "from_raw_token" /\ result.src = "received") =>
        /\ MissingKey(token) =>
            /\ Raised(result.value) /\ result.value.exc = "KeyError"
            /\ session = NoSession /\ pc = "failed"
        /\ (~MissingKey(token) /\ token.user_claims.roles.type = "list"
                /\ token.user_claims.roles.val # <<>>) =>
            /\ result.value = AttributeError("items")
            /\ session = NoSession /\ pc = "failed"
        /\ (WrongShape(token) /\ ~Truthy(token.user_claims.roles)) =>
            /\ IsSession(result.value) /\ result.value.roles = << >>
        /\ (WrongShape(token) /\ token.user_claims.roles.type = "dict") =>
            /\ IsSession(result.value) /\ result.value.session_id \in GeneratedIds

\* claims without a session id were refused
C8_Witness ==
    /\ result.op = "from_raw_token"
    /\ result.src = "received"
    /\ "user_claims" \in DOMAIN token
    /\ "identity" \in DOMAIN token
    /\ "session_id" \notin DOMAIN token.user_claims
    /\ Raised(result.value)

\* C9: in the claims to_token_data produces, identity and sub carry the same
\* value, the identity of the session.
C9_IdentityIsSub ==
    result.op = "to_token_data" =>
        /\ result.value.identity = result.value.sub
        /\ result.value.identity = session.identity

\* a session with an identity was serialised
C9_Witness ==
    /\ result.op = "to_token_data"
    /\ session.identity \in Identities

\* C10: a session id passed to the constructor is the session id of the
\* session and the one in its claims; without one the session gets a
\* generated, non-empty id.
C10_SuppliedSessionId ==
    result.op = "Session" =>
        IF result.custom_uuid # None
        THEN /\ session.session_id = result.custom_uuid
             /\ \A order \in ListOrders(session) :
                    to_token_data(session, order).user_claims.session_id = result.custom_uuid
        ELSE session.session_id \in GeneratedIds /\ session.session_id # ""

----------------------------------------------------------------------------
(* Claims about the path functions *)

\* the number of segments of a str: one more than its separators
SegmentCount(str) == Cardinality({i \in 1..Len(str) : str[i] = Sep}) + 1

\* C18: for a path of n segments iterate_parents without include_self yields
\* its n-1 proper ancestors, root first, and with include_self the same
\* followed by the path itself.
C18_ParentsRootFirst ==
    result.op = "iterate_parents" =>
        LET n == SegmentCount(result.org)
            ps == result.value
        IN  /\ \A i \in 1..(n - 1) : i \in DOMAIN ps /\ IsProperAncestor(ps[i], result.org)
            /\ \A i \in 1..(n - 2) : Len(ps[i]) < Len(ps[i + 1])
            /\ IF result.include_self
               THEN Len(ps) = n /\ ps[n] = result.org
               ELSE Len(ps) = n - 1

\* a path of three segments was walked without itself
C18_Witness ==
    /\ result.op = "iterate_parents"
    /\ ~result.include_self
    /\ SegmentCount(result.org) = 3
    /\ result.org \in Paths

\* C19: ancestors(paths) holds exactly the proper ancestors of the given
\* paths, whatever their order and repetitions; a given path is in it only
\* when it is a proper ancestor of another given path.
C19_AncestorsUnion ==
    result.op = "ancestors" =>
        /\ \A p \in PathStrings :
            p \in result.value <=> \E o \in Range(result.orgs) : IsProperAncestor(p, o)
        /\ result.value \subseteq PathStrings
        /\ \A o \in Range(result.orgs) :
            o \in result.value => \E q \in Range(result.orgs) : IsProperAncestor(o, q)

\* a path given twice together with one of its descendants
C19_Witness ==
    /\ result.op = "ancestors"
    /\ Len(result.orgs) = 3
    /\ result.orgs[1] = result.orgs[3]
    /\ IsProperAncestor(result.orgs[1], result.orgs[2])
    /\ result.orgs[1] \in result.value
    /\ result.orgs[2] \notin result.value

----------------------------------------------------------------------------
(* The route guard: required(admitted_roles, optional) *)

NoneRoles == <<"<None>">>

\* werkzeug and flask_jwt_extended exceptions with the status they map to
Forbidden == [exc |-> "Forbidden", code |-> 403]
NotFound == [exc |-> "NotFound", code |-> 404]
NoAuthorizationError == [exc |-> "NoAuthorizationError", code |-> 401]
ExpiredSignatureError == [exc |-> "ExpiredSignatureError", code |-> 401]

\* the status of the response an uncaught exception ends in
StatusOf(e) == IF "code" \in DOMAIN e THEN e.code ELSE 500

\* JWT_EXEMPT_METHODS of flask_jwt_extended
ExemptMethods == {"OPTIONS"}
Methods == {"GET", "OPTIONS"}

\* the declarations of a route
Routes == [admitted_roles : {NoneRoles} \cup RoleLists, optional : BOOLEAN]

\* the callbacks an application registers: one that returns, one that raises
AppCallbacks == {"returns", "raises"}

\* the claims of the tokens with a valid signature: what session_to_token
\* issues, and claims without user_claims
JwtData ==
    {t \in RawTokens :
        /\ "identity" \in DOMAIN t
        /\ t.sub = t.identity
        /\ "user_claims" \in DOMAIN t =>
            /\ DOMAIN t.user_claims = {"session_id", "roles"}
            /\ t.user_claims.session_id \in CustomIds
            /\ t.user_claims.roles.type = "dict"}

\* the x-ist-org header: absent, empty or an organization
HeaderOrgs == {NoneOrg, <<>>, <<"a">>, <<"a", Sep, "a">>}

\* the Authorization header: absent, a token past its expiry, a valid token
Authorizations ==
    {[kind |-> "none"], [kind |-> "expired"]}
        \cup {[kind |-> "valid", jwt_data |-> t] : t \in JwtData}

Requests == [method : Methods, authorization : Authorizations, x_ist_org : HeaderOrgs]

\* bool(org) of the header value
TruthyOrg(org) == org # NoneOrg /\ org # <<>>

\* variant of create_anonymous_session: the header is not read
create_anonymous_session_noorg(req, uuid4) ==
    Session_init(None, PyDict(<< >>), None, uuid4)

\* Session.create_anonymous_session
create_anonymous_session(req, uuid4) ==
    LET org == req.x_ist_org
    IN  Session_init(None,
                     IF TruthyOrg(org) THEN PyDict([o \in {org} |-> <<>>])
                     ELSE PyDict(<< >>),
                     None, uuid4)

\* create_session, the user lookup loader
create_session(jwt_data, uuid4) == from_raw_token(jwt_data, uuid4)

\* variants of verify_jwt_in_request: optional is taken as set; any failure
\* of the verification falls back to None
verify_jwt_in_request_optional(req, optional, uuid4) ==
    IF req.method \in ExemptMethods THEN [kind |-> "none"]
    ELSE IF req.authorization.kind = "none" THEN [kind |-> "none"]
    ELSE IF req.authorization.kind = "expired"
         THEN [kind |-> "raise", exc |-> ExpiredSignatureError]
    ELSE LET user == create_session(req.authorization.jwt_data, uuid4)
         IN  IF Raised(user) THEN [kind |-> "raise", exc |-> user]
             ELSE [kind |-> "ok", user |-> user]

verify_jwt_in_request_fallback(req, optional, uuid4) ==
    IF req.method \in ExemptMethods THEN [kind |-> "none"]
    ELSE IF req.authorization.kind \in {"none", "expired"} THEN [kind |-> "none"]
    ELSE LET user == create_session(req.authorization.jwt_data, uuid4)
         IN  IF Raised(user) THEN [kind |-> "raise", exc |-> user]
             ELSE [kind |-> "ok", user |-> user]

\* flask_jwt_extended.verify_jwt_in_request(optional=optional): None for an
\* exempt method and for a missing token when optional; otherwise the token
\* is decoded, the user is looked up and a true value is returned, or the
\* error is raised.
verify_jwt_in_request(req, optional, uuid4) ==
    IF req.method \in ExemptMethods THEN [kind |-> "none"]
    ELSE IF req.authorization.kind = "none"
         THEN IF optional THEN [kind |-> "none"]
              ELSE [kind |-> "raise", exc |-> NoAuthorizationError]
    ELSE IF req.authorization.kind = "expired"
         THEN [kind |-> "raise", exc |-> ExpiredSignatureError]
    ELSE LET user == create_session(req.authorization.jwt_data, uuid4)
         IN  IF Raised(user) THEN [kind |-> "raise", exc |-> user]
             ELSE [kind |-> "ok", user |-> user]

\* variant of check_roles: the result of the check is not looked at
check_roles_ignored(self, admitted_roles, org) == [returned |-> TRUE]

\* check_roles: Forbidden is raised or the call returns
check_roles(self, admitted_roles, org) ==
    IF ~has_any_role_of(self, admitted_roles, org) THEN Forbidden
    ELSE [returned |-> TRUE]

GuardInit ==
    /\ session = NoSession
    /\ token = NoToken
    /\ result = NoResult
    /\ pc = "idle"
    /\ route \in Routes
    /\ request = NoRequest
    /\ manager = "default"
    /\ g = NoUser
    /\ gpc = "setup"
    /\ log = <<>>
    /\ response = NoResponse
    /\ callbacks = <<>>
    /\ fix = NoFix
    /\ environ = NoEnviron
    /\ client = NoClient
    /\ mock_calls = <<>>
    /\ app = NoApp
    /\ row = NoRow
    /\ connection = NoConnection

\* variant of the registration: a callback once registered is kept
PushContextCallback_first ==
    /\ gpc = "setup"
    /\ Len(callbacks) < MaxCallbacks
    /\ \E callback \in AppCallbacks :
        /\ manager' = IF manager = "default" THEN callback ELSE manager
        /\ callbacks' = Append(callbacks, callback)
    /\ UNCHANGED <<session, token, result, pc, route, request, g, gpc, log, response>>
    /\ UNCHANGED ovars

\* manager.push_context_callback(callback): the callback registered last
\* replaces the one before it
PushContextCallback ==
    /\ gpc = "setup"
    /\ Len(callbacks) < MaxCallbacks
    /\ \E callback \in AppCallbacks :
        /\ manager' = callback
        /\ callbacks' = Append(callbacks, callback)
    /\ UNCHANGED <<session, token, result, pc, route, request, g, gpc, log, response>>
    /\ UNCHANGED ovars

\* a request for the route comes in
ReceiveRequest ==
    /\ gpc = "setup"
    /\ \E req \in Requests : request' = req
    /\ gpc' = "unverified"
    /\ UNCHANGED <<session, token, result, pc, route, manager, g, log, response, callbacks>>
    /\ UNCHANGED ovars

\* wrapper, lines 177-182: the token is verified and the session is the
\* loaded user, or an anonymous session is made and stored as the user
Verify ==
    /\ gpc = "unverified"
    /\ \E uuid4 \in GeneratedIds :
        LET v == verify_jwt_in_request(request, route.optional, uuid4)
            anon == create_anonymous_session(request, uuid4)
        IN  CASE v.kind = "raise" ->
                    /\ response' = [status |-> StatusOf(v.exc), exc |-> v.exc]
                    /\ gpc' = IF StatusOf(v.exc) = 401 THEN "rejected" ELSE "error"
                    /\ UNCHANGED <<session, token, pc, g>>
              [] v.kind = "ok" ->
                    /\ token' = request.authorization.jwt_data
                    /\ g' = [loaded_user |-> v.user]
                    /\ session' = v.user
                    /\ pc' = "decoded"
                    /\ gpc' = "verified"
                    /\ UNCHANGED response
              [] v.kind = "none" ->
                    /\ session' = anon
                    /\ g' = [loaded_user |-> anon]
                    /\ pc' = "constructed"
                    /\ gpc' = "anonymous"
                    /\ UNCHANGED <<token, response>>
    /\ UNCHANGED <<result, route, request, manager, log, callbacks>>
    /\ UNCHANGED ovars

\* wrapper, line 183: manager.push_context(session)
PushContext ==
    /\ gpc \in {"verified", "anonymous"}
    /\ log' = Append(log, [op |-> "push_context", callback |-> manager,
                           session |-> session])
    /\ IF manager = "raises"
       THEN /\ response' = [status |-> StatusOf(NotFound), exc |-> NotFound]
            /\ gpc' = "interrupted"
       ELSE /\ gpc' = "pushed"
            /\ UNCHANGED response
    /\ UNCHANGED <<session, token, result, pc, route, request, manager, g, callbacks>>
    /\ UNCHANGED ovars

\* variant of the role check: admitted_roles None is taken as the empty list
CheckRoles_always ==
    /\ gpc = "pushed"
    /\ LET admitted == IF route.admitted_roles = NoneRoles THEN <<>>
                       ELSE route.admitted_roles
           r == check_roles(session, admitted, NoneOrg) IN
        /\ log' = Append(log, [op |-> "has_any_role_of", roles |-> admitted,
                               org |-> NoneOrg, value |-> ~Raised(r)])
        /\ IF Raised(r)
           THEN /\ response' = [status |-> StatusOf(r), exc |-> r]
                /\ gpc' = "rejected"
           ELSE /\ gpc' = "authorized"
                /\ UNCHANGED response
    /\ UNCHANGED <<session, token, result, pc, route, request, manager, g, callbacks>>
    /\ UNCHANGED ovars

\* wrapper, lines 184-185: the role check
CheckRoles ==
    /\ gpc = "pushed"
    /\ IF session # NoSession /\ route.admitted_roles # NoneRoles
       THEN LET r == check_roles(session, route.admitted_roles, NoneOrg) IN
            /\ log' = Append(log, [op |-> "has_any_role_of",
                                   roles |-> route.admitted_roles, org |-> NoneOrg,
                                   value |-> ~Raised(r)])
            /\ IF Raised(r)
               THEN /\ response' = [status |-> StatusOf(r), exc |-> r]
                    /\ gpc' = "rejected"
               ELSE /\ gpc' = "authorized"
                    /\ UNCHANGED response
       ELSE /\ gpc' = "authorized"
            /\ UNCHANGED <<log, response>>
    /\ UNCHANGED <<session, token, result, pc, route, request, manager, g, callbacks>>
    /\ UNCHANGED ovars

\* wrapper, line 186: the handler is called; it reads get_current_session()
Handler ==
    /\ gpc = "authorized"
    /\ log' = Append(log, [op |-> "handler", session |-> g.loaded_user])
    /\ gpc' = "handler"
    /\ UNCHANGED <<session, token, result, pc, route, request, manager, g, response, callbacks>>
    /\ UNCHANGED ovars

\* the handler works with the session
HandlerCalls ==
    /\ gpc = "handler"
    /\ \/ HasAnyRoleOf
       \/ OrganizationsForRoles
       \/ SessionToToken
       \/ Return

\* the handler returns its response
HandlerReturn ==
    /\ gpc = "handler"
    /\ Idle
    /\ response' = [status |-> 200]
    /\ gpc' = "done"
    /\ UNCHANGED <<session, token, result, pc, route, request, manager, g, log, callbacks>>
    /\ UNCHANGED ovars

GuardNext ==
    \/ PushContextCallback
    \/ ReceiveRequest
    \/ Verify
    \/ PushContext
    \/ CheckRoles
    \/ Handler
    \/ HandlerCalls
    \/ HandlerReturn

GuardSpec == GuardInit /\ [][GuardNext]_vars

----------------------------------------------------------------------------
(* Claims about the route guard *)

\* the calls of one kind the wrapper has made
Calls(op) == {i \in DOMAIN log : log[i].op = op}

\* the request is over
Ended == gpc \in {"rejected", "error", "interrupted", "done"}

\* the request got a session: from the verified token or an anonymous one
Verified == session # NoSession /\ pc = "decoded"
Anonymous == session # NoSession /\ pc = "constructed"

CallbackRaised == gpc = "interrupted"

\* C11: when the verification fails on a route that is not optional, for a
\* method that is not exempt, the request is rejected with 401 and neither
\* the role check nor the push-context callback nor the handler is called.
C11_Unauthenticated ==
    (/\ gpc \notin {"setup", "unverified"}
     /\ ~route.optional
     /\ request.method \notin ExemptMethods
     /\ request.authorization.kind \in {"none", "expired"}) =>
        /\ gpc = "rejected"
        /\ response.status = 401
        /\ log = <<>>
        /\ session = NoSession /\ g = NoUser

\* an expired token on a route with admitted roles
C11_Witness ==
    /\ gpc = "rejected"
    /\ ~route.optional
    /\ request.method = "GET"
    /\ request.authorization.kind = "expired"
    /\ route.admitted_roles = <<"r1">>
    /\ response.status = 401

\* the role check of the wrapper: has_any_role_of(admitted_roles) is called
\* once, without organization; false ends in 403 without the handler, true
\* in the handler being called once
RoleCheckDecides ==
    /\ Cardinality(Calls("has_any_role_of")) = 1
    /\ \A i \in Calls("has_any_role_of") :
        /\ log[i].roles = route.admitted_roles
        /\ log[i].org = NoneOrg
        /\ log[i].value = has_any_role_of(session, route.admitted_roles, NoneOrg)
        /\ IF log[i].value
           THEN /\ gpc = "done"
                /\ response.status = 200
                /\ Cardinality(Calls("handler")) = 1
           ELSE /\ gpc = "rejected"
                /\ response.status = 403
                /\ response.status # 401
                /\ Calls("handler") = {}

\* C12 as stated: every request with a session on a route with admitted
\* roles has the role check decide it.
C12_RoleCheckAlways ==
    (Ended /\ session # NoSession /\ route.admitted_roles # NoneRoles) =>
        RoleCheckDecides

\* C12 as the code has it: the role check decides the request unless the
\* push-context callback raises; then the request ends with the exception
\* of the callback, without role check and without handler. The handler is
\* never called before a role check that was true.
C12_RoleCheck ==
    /\ (Ended /\ session # NoSession /\ route.admitted_roles # NoneRoles) =>
        IF CallbackRaised
        THEN /\ Calls("has_any_role_of") = {} /\ Calls("handler") = {}
             /\ response.status = StatusOf(NotFound)
        ELSE RoleCheckDecides
    /\ (route # NoRoute /\ route.admitted_roles # NoneRoles) =>
        \A h \in Calls("handler") :
            \E i \in Calls("has_any_role_of") : i < h /\ log[i].value = TRUE

\* a verified session without an admitted role was refused
C12_Witness ==
    /\ Ended
    /\ Verified
    /\ DOMAIN session.roles # {}
    /\ route.admitted_roles = <<"r1">>
    /\ response.status = 403
    /\ Calls("handler") = {}

\* C13: an anonymous session exists only on an optional route or for an
\* exempt method; in every other request the handler sees the session
\* decoded from the verified token, with the identity of the token.
C13_AnonymousOnlyIfAllowed ==
    /\ (gpc = "anonymous" \/ Anonymous) =>
        (route.optional \/ request.method \in ExemptMethods)
    /\ (route # NoRoute /\ request # NoRequest
            /\ ~(route.optional \/ request.method \in ExemptMethods)) =>
        \A h \in Calls("handler") :
            /\ request.authorization.kind = "valid"
            /\ token = request.authorization.jwt_data
            /\ \E uuid4 \in GeneratedIds : log[h].session = from_raw_token(token, uuid4)
            /\ log[h].session.identity = token.identity
            /\ log[h].session = session

\* the handler of a route that is not optional saw a user's session
C13_Witness ==
    /\ gpc = "done"
    /\ ~route.optional
    /\ request.method = "GET"
    /\ \E h \in Calls("handler") : log[h].session.identity \in Identities

C15_NoRolesAdmitsAll ==
    (Ended /\ route.admitted_roles = NoneRoles /\ session # NoSession) =>
        /\ gpc = "done"
        /\ Cardinality(Calls("handler")) = 1

\* C15 as the code has it: without admitted roles no role check is made,
\* and every request that got a session is authorized and its handler
\* runs, unless the push-context callback raises.
C15_NoRolesNoCheck ==
    (Ended /\ route.admitted_roles = NoneRoles /\ session # NoSession) =>
        /\ Calls("has_any_role_of") = {}
        /\ IF CallbackRaised THEN Calls("handler") = {}
           ELSE gpc = "done" /\ Cardinality(Calls("handler")) = 1

\* an anonymous session with an empty role map was served
C15_Witness ==
    /\ gpc = "done"
    /\ route.admitted_roles = NoneRoles
    /\ Anonymous
    /\ DOMAIN session.roles = {}

\* C16: an anonymous session has identity None and the role map {org: {}}
\* for a non-empty x-ist-org header org, the empty map otherwise; it is the
\* session the handler gets from get_current_session().
C16_AnonymousSession ==
    Anonymous =>
        /\ session.identity = None
        /\ session.roles = IF request.x_ist_org # NoneOrg /\ Len(request.x_ist_org) > 0
                           THEN [o \in {request.x_ist_org} |-> {}]
                           ELSE << >>
        /\ g = [loaded_user |-> session]
        /\ \A h \in Calls("handler") : log[h].session = session

\* the handler of an optional route saw the anonymous session of an
\* organization
C16_Witness ==
    /\ Anonymous
    /\ route.optional
    /\ request.method = "GET"
    /\ request.x_ist_org = <<"a", Sep, "a">>
    /\ Calls("handler") # {}

\* C17 as stated: an anonymous session on a route with non-empty admitted
\* roles always ends in 403 without the handler.
C17_AnonymousForbidden ==
    (/\ Ended
     /\ Anonymous
     /\ route.admitted_roles \notin {NoneRoles, <<>>}) =>
        /\ gpc = "rejected"
        /\ response.status = 403
        /\ Calls("handler") = {}

\* C17 as the code has it: such a request never reaches the handler; it
\* ends in 403, or, when the push-context callback raises, in the exception
\* of the callback.
C17_AnonymousNeverServed ==
    (/\ Anonymous
     /\ route.admitted_roles \notin {NoneRoles, <<>>}) =>
        /\ Calls("handler") = {}
        /\ gpc \notin {"authorized", "handler", "done"}
        /\ Ended =>
            IF CallbackRaised THEN response.status = StatusOf(NotFound)
            ELSE gpc = "rejected" /\ response.status = 403

\* an OPTIONS request with an organization header was refused
C17_Witness ==
    /\ Ended
    /\ Anonymous
    /\ ~route.optional
    /\ request.method = "OPTIONS"
    /\ TruthyOrg(request.x_ist_org)
    /\ route.admitted_roles = <<"r1">>
    /\ response.status = 403

\* C20: once a request has its session, no step of the guard and no call of
\* has_any_role_of, organizations_for_roles, to_token_data or check_roles
\* changes its identity, session id or role map.
C20_SessionImmutable ==
    [][session # NoSession => session' = session]_vars

\* the handler has called a method of the session after the role check
C20_Witness ==
    /\ gpc = "handler"
    /\ result.op = "has_any_role_of"
    /\ result.org # NoneOrg
    /\ result.value = TRUE
    /\ Calls("has_any_role_of") # {}

\* the request obtained a session: the loaded user of the verified token or
\* the anonymous session stored in its place
SessionObtained == g # NoUser

\* the callback a push_context call reaches: the last one registered, the
\* default of the Manager class when none was
RegisteredCallback ==
    IF callbacks = <<>> THEN "default" ELSE callbacks[Len(callbacks)]

\* C28: a request that obtains a session has the registered push-context
\* callback called exactly once with that session, as the first call of the
\* wrapper, before the role check and the handler; the callback called is the
\* one registered last; when it raises, neither the role check nor the
\* handler runs.  A request without a session calls no callback.
C28_PushContextOrder ==
    /\ (~SessionObtained \/ gpc \in {"verified", "anonymous"}) =>
            Calls("push_context") = {}
    /\ (SessionObtained /\ gpc \notin {"verified", "anonymous"}) =>
        /\ Cardinality(Calls("push_context")) = 1
        /\ log[1].op = "push_context"
        /\ log[1].session = session
        /\ log[1].session = g.loaded_user
        /\ log[1].callback = RegisteredCallback
        /\ \A i \in Calls("has_any_role_of") \cup Calls("handler") : i > 1
        /\ log[1].callback = "raises" =>
            /\ Calls("has_any_role_of") = {}
            /\ Calls("handler") = {}
            /\ gpc = "interrupted"

\* a callback that raises was registered after one that returns, and a
\* verified request on a route with admitted roles was interrupted by it
C28_Witness ==
    /\ gpc = "interrupted"
    /\ callbacks = <<"returns", "raises">>
    /\ Verified
    /\ route.admitted_roles = <<"r1">>
    /\ log = <<[op |-> "push_context", callback |-> "raises", session |-> session]>>

----------------------------------------------------------------------------
(* wsgi.ProxyFix *)

(***************************************************************************)
(* Encoding of the WSGI environ: a dict from keys to str values.  A value  *)
(* is the sequence of its tokens, where an IP address, a host name and a   *)
(* scheme are one token each and " " and "," are tokens of their own, so   *)
(* that str.split(","), str.strip() and the parse of ip_address() are      *)
(* computed.  "" is the empty sequence and None is NoneOrg.                *)
(***************************************************************************)

\* how many entries an X-Forwarded-For header has at most
MaxForwarded == 2

Addresses == {"127.0.0.1", "10.0.0.1", "8.8.8.8"}
Space == " "
Comma == ","

ValueError == [exc |-> "ValueError"]

\* ipaddress.ip_address(string): the address, or ValueError for anything
\* that is not exactly one address (padding included)
ip_address(string) ==
    IF Len(string) = 1 /\ string[1] \in Addresses THEN [ip |-> string[1]]
    ELSE ValueError

\* str.strip()
RECURSIVE lstrip(_)
lstrip(string) ==
    IF string # <<>> /\ Head(string) = Space THEN lstrip(Tail(string)) ELSE string

RECURSIVE rstrip(_)
rstrip(string) ==
    IF string # <<>> /\ string[Len(string)] = Space
    THEN rstrip(SubSeq(string, 1, Len(string) - 1))
    ELSE string

strip(string) == rstrip(lstrip(string))

\* str.split(",")
RECURSIVE SplitCommas(_, _, _)
SplitCommas(s, cur, acc) ==
    IF s = <<>> THEN Append(acc, cur)
    ELSE IF Head(s) = Comma THEN SplitCommas(Tail(s), <<>>, Append(acc, cur))
    ELSE SplitCommas(Tail(s), Append(cur, Head(s)), acc)

\* _split(string): string.split(",") if string else []
_split(string) ==
    IF string # <<>> /\ string # NoneOrg THEN SplitCommas(string, <<>>, <<>>)
    ELSE <<>>

\* ProxyFix.__init__: the trusted addresses of PROXYFIX_TRUSTED
TrustedLists == {<<"127.0.0.1">>, <<"127.0.0.1", "10.0.0.1">>, <<"10.0.0.1">>}

ProxyFix_init(proxies) ==
    [trusted |-> frozenset([i \in DOMAIN proxies |-> ip_address(strip(<<proxies[i]>>))])]

\* the loop of get_remote_addr over reversed(chain), from position i down
RECURSIVE FirstUntrusted(_, _, _, _)
FirstUntrusted(self, chain, i, remote) ==
    IF i = 0 THEN remote
    ELSE LET ip_str == strip(chain[i])
             ip == ip_address(ip_str)
         IN  IF Raised(ip) THEN ip_str
             ELSE IF ip \notin self.trusted THEN ip_str
             ELSE FirstUntrusted(self, chain, i - 1, remote)

\* variant of get_remote_addr: the direct peer is looked at first
get_remote_addr_peer_first(self, forwarded_for, remote) ==
    LET chain == forwarded_for \o <<remote>>
    IN  FirstUntrusted(self, chain, Len(chain), remote)

\* ProxyFix.get_remote_addr
get_remote_addr(self, forwarded_for, remote) ==
    LET chain == <<remote>> \o forwarded_for
    IN  FirstUntrusted(self, chain, Len(chain), remote)

\* dict.get(key, default), and the dict with one more assignment
env(e, key, default) == IF key \in DOMAIN e THEN e[key] ELSE default

SetItem(e, key, value) ==
    [k \in DOMAIN e \cup {key} |-> IF k = key THEN value ELSE e[k]]

\* bool(string) of an optional str
TruthyValue(string) == string # NoneOrg /\ string # <<>>

\* str.lower() for the tokens of a scheme
lower(string) ==
    [i \in DOMAIN string |->
        CASE string[i] = "HTTPS" -> "https"
          [] string[i] = "HTTP" -> "http"
          [] OTHER -> string[i]]

\* "https" in string
ContainsHttps(string) == \E i \in DOMAIN string : string[i] = "https"

\* variant of update_environ: the forwarded host and scheme are taken from
\* any peer
update_environ_any_peer(self, environ_) ==
    LET remote_addr == env(environ_, "REMOTE_ADDR", NoneOrg) IN
    IF ~TruthyValue(remote_addr) THEN environ_
    ELSE
    LET forwarded_proto == env(environ_, "HTTP_X_FORWARDED_PROTO", <<>>)
        forwarded_for == _split(env(environ_, "HTTP_X_FORWARDED_FOR", <<>>))
        forwarded_host == env(environ_, "HTTP_X_FORWARDED_HOST", <<>>)
        e1 == SetItem(environ_, "werkzeug.proxy_fix.orig_wsgi_url_scheme",
                      env(environ_, "wsgi.url_scheme", NoneOrg))
        e2 == SetItem(e1, "werkzeug.proxy_fix.orig_remote_addr",
                      env(environ_, "REMOTE_ADDR", NoneOrg))
        e3 == SetItem(e2, "werkzeug.proxy_fix.orig_http_host",
                      env(environ_, "HTTP_HOST", NoneOrg))
        e4 == IF TruthyValue(forwarded_host)
              THEN SetItem(e3, "HTTP_HOST", forwarded_host) ELSE e3
        e5 == IF TruthyValue(forwarded_proto)
              THEN SetItem(e4, "wsgi.url_scheme",
                           IF ContainsHttps(lower(forwarded_proto))
                           THEN <<"https">> ELSE <<"http">>)
              ELSE e4
        new_addr == get_remote_addr(self, forwarded_for, remote_addr)
    IN  IF new_addr # NoneOrg THEN SetItem(e5, "REMOTE_ADDR", new_addr) ELSE e5

\* ProxyFix.update_environ: the environ after the call
update_environ(self, environ_) ==
    LET remote_addr == env(environ_, "REMOTE_ADDR", NoneOrg) IN
    IF ~TruthyValue(remote_addr) THEN environ_
    ELSE
    LET parsed == ip_address(remote_addr)
        remote_addr_ip == IF Raised(parsed) THEN ip_address(<<"127.0.0.1">>)
                          ELSE parsed
        forwarded_proto == env(environ_, "HTTP_X_FORWARDED_PROTO", <<>>)
        forwarded_for == _split(env(environ_, "HTTP_X_FORWARDED_FOR", <<>>))
        forwarded_host == env(environ_, "HTTP_X_FORWARDED_HOST", <<>>)
        e1 == SetItem(environ_, "werkzeug.proxy_fix.orig_wsgi_url_scheme",
                      env(environ_, "wsgi.url_scheme", NoneOrg))
        e2 == SetItem(e1, "werkzeug.proxy_fix.orig_remote_addr",
                      env(environ_, "REMOTE_ADDR", NoneOrg))
        e3 == SetItem(e2, "werkzeug.proxy_fix.orig_http_host",
                      env(environ_, "HTTP_HOST", NoneOrg))
        trusted == remote_addr_ip \in self.trusted
        e4 == IF trusted /\ TruthyValue(forwarded_host)
              THEN SetItem(e3, "HTTP_HOST", forwarded_host) ELSE e3
        e5 == IF trusted /\ TruthyValue(forwarded_proto)
              THEN SetItem(e4, "wsgi.url_scheme",
                           IF ContainsHttps(lower(forwarded_proto))
                           THEN <<"https">> ELSE <<"http">>)
              ELSE e4
        new_addr == get_remote_addr(self, forwarded_for, remote_addr)
    IN  IF new_addr # NoneOrg THEN SetItem(e5, "REMOTE_ADDR", new_addr) ELSE e5

\* the entries of an X-Forwarded-For header: addresses, addresses after the
\* blank that follows a comma, and something that is no address
ForwardedEntries ==
    {<<a>> : a \in Addresses}
        \cup {<<Space, a>> : a \in {"127.0.0.1", "8.8.8.8"}}
        \cup {<<"unknown">>}

RECURSIVE ListsUpTo(_, _)
ListsUpTo(S, n) ==
    IF n = 0 THEN {<<>>}
    ELSE LET shorter == ListsUpTo(S, n - 1)
         IN  shorter \cup {Append(l, x) : l \in shorter, x \in S}

ForwardedLists == ListsUpTo(ForwardedEntries, MaxForwarded)

\* ",".join(entries)
RECURSIVE JoinCommas(_)
JoinCommas(entries) ==
    IF entries = <<>> THEN <<>>
    ELSE IF Len(entries) = 1 THEN entries[1]
    ELSE entries[1] \o <<Comma>> \o JoinCommas(Tail(entries))

\* a key the request does not carry
Absent == <<"<absent>">>

RemoteAddrs == {Absent, <<>>, <<"unknown">>} \cup {<<a>> : a \in Addresses}
ForwardedFors == {Absent} \cup {JoinCommas(l) : l \in ForwardedLists}
ForwardedHosts == {Absent, <<>>, <<"untrusted.com">>}
ForwardedProtos == {Absent, <<>>, <<"https">>, <<"HTTPS">>, <<"http">>}
HttpHosts == {Absent, <<"example.com">>}
UrlSchemes == {<<"http">>, <<"https">>}

BackupKeys == {"werkzeug.proxy_fix.orig_wsgi_url_scheme",
               "werkzeug.proxy_fix.orig_remote_addr",
               "werkzeug.proxy_fix.orig_http_host"}

RequestKeys == {"REMOTE_ADDR", "HTTP_HOST", "wsgi.url_scheme",
                "HTTP_X_FORWARDED_FOR", "HTTP_X_FORWARDED_HOST",
                "HTTP_X_FORWARDED_PROTO"}

\* the WSGI environ of a request, with the keys it carries
MakeEnviron(r, h, s, f, fh, fp) ==
    LET values == [k \in RequestKeys |->
                    CASE k = "REMOTE_ADDR" -> r
                      [] k = "HTTP_HOST" -> h
                      [] k = "wsgi.url_scheme" -> s
                      [] k = "HTTP_X_FORWARDED_FOR" -> f
                      [] k = "HTTP_X_FORWARDED_HOST" -> fh
                      [] k = "HTTP_X_FORWARDED_PROTO" -> fp]
    IN  [k \in {k \in RequestKeys : values[k] # Absent} |-> values[k]]

Environs ==
    {MakeEnviron(r, h, s, f, fh, fp) :
        r \in RemoteAddrs, h \in HttpHosts, s \in UrlSchemes,
        f \in ForwardedFors, fh \in ForwardedHosts, fp \in ForwardedProtos}

\* the addresses get_remote_addr is called with as the direct peer
Remotes == {<<"unknown">>, <<Space, "127.0.0.1">>} \cup {<<a>> : a \in Addresses}

ProxyInit ==
    /\ session = NoSession
    /\ token = NoToken
    /\ result = NoResult
    /\ pc = "idle"
    /\ route = NoRoute
    /\ request = NoRequest
    /\ manager = "default"
    /\ g = NoUser
    /\ gpc = "off"
    /\ log = <<>>
    /\ response = NoResponse
    /\ callbacks = <<>>
    /\ \E proxies \in TrustedLists : fix = ProxyFix_init(proxies)
    /\ environ = NoEnviron
    /\ client = NoClient
    /\ mock_calls = <<>>
    /\ app = NoApp
    /\ row = NoRow
    /\ connection = NoConnection

\* ProxyFix.__call__: the environ of a request is updated in place
ProxyFix_call ==
    /\ environ = NoEnviron
    /\ Idle
    /\ \E e \in Environs :
        /\ result' = [op |-> "update_environ", environ |-> e]
        /\ environ' = update_environ(fix, e)
    /\ UNCHANGED <<session, token, pc, gvars>>
    /\ UNCHANGED <<fix, client, mock_calls, app, row, connection>>

\* fix.get_remote_addr(forwarded_for, remote)
GetRemoteAddr ==
    /\ environ = NoEnviron
    /\ Idle
    /\ \E forwarded_for \in ForwardedLists, remote \in Remotes :
        result' = [op |-> "get_remote_addr", forwarded_for |-> forwarded_for,
                   remote |-> remote,
                   value |-> get_remote_addr(fix, forwarded_for, remote)]
    /\ UNCHANGED <<session, token, pc, gvars>>
    /\ UNCHANGED ovars

ProxyNext ==
    \/ ProxyFix_call
    \/ GetRemoteAddr

ProxySpec == ProxyInit /\ [][ProxyNext]_vars

(* Claims about ProxyFix *)

\* update_environ was called with an environ that carries a REMOTE_ADDR
Updated == result.op = "update_environ" /\ TruthyValue(env(result.environ, "REMOTE_ADDR", NoneOrg))

\* the value of a key is what it was before the call, absent included
Kept(key) == env(environ, key, Absent) = env(result.environ, key, Absent)

\* the direct peer of the request is an address outside the trusted set
UntrustedPeer ==
    LET ip == ip_address(result.environ["REMOTE_ADDR"])
    IN  ~Raised(ip) /\ ip \notin fix.trusted

\* C21: for a request whose REMOTE_ADDR is an address outside the trusted
\* set, update_environ leaves REMOTE_ADDR, HTTP_HOST and wsgi.url_scheme as
\* they were, whatever the X-Forwarded-* headers say, and adds only the
\* three backup keys.
C21_UntrustedUnchanged ==
    (Updated /\ UntrustedPeer) =>
        /\ Kept("REMOTE_ADDR")
        /\ Kept("HTTP_HOST")
        /\ Kept("wsgi.url_scheme")
        /\ DOMAIN environ = DOMAIN result.environ \cup BackupKeys

\* what holds of such a request: host and scheme are kept, the backup keys
\* are added, and REMOTE_ADDR is what get_remote_addr makes of the header
C21_HostAndSchemeKept ==
    (Updated /\ UntrustedPeer) =>
        /\ Kept("HTTP_HOST")
        /\ Kept("wsgi.url_scheme")
        /\ DOMAIN environ = DOMAIN result.environ \cup BackupKeys
        /\ environ["REMOTE_ADDR"] =
            get_remote_addr(fix,
                _split(env(result.environ, "HTTP_X_FORWARDED_FOR", <<>>)),
                result.environ["REMOTE_ADDR"])

\* after strip() the string is no address of the trusted set
NotTrusted(self, string) ==
    LET ip == ip_address(strip(string))
    IN  Raised(ip) \/ ip \notin self.trusted

\* C22: get_remote_addr(forwarded_for, remote) walks the X-Forwarded-For
\* entries from the right and returns the first that is not a trusted IP;
\* when all of them are trusted the direct peer decides, and remote is
\* returned.  Entries are compared and returned without surrounding blanks.
C22_InnermostUntrusted ==
    result.op = "get_remote_addr" =>
        LET ff == result.forwarded_for
            untrusted == {i \in DOMAIN ff : NotTrusted(fix, ff[i])}
        IN  IF untrusted # {}
            THEN \E i \in untrusted :
                    /\ \A j \in untrusted : j <= i
                    /\ result.value = strip(ff[i])
            ELSE IF NotTrusted(fix, result.remote)
            THEN result.value = strip(result.remote)
            ELSE result.value = result.remote

\* two trusted proxies to the right of an untrusted entry, as in
\* test_multiple_trusted_multiple_untrusted, with the blank after the comma
C22_Witness ==
    /\ result.op = "get_remote_addr"
    /\ fix.trusted = {[ip |-> "127.0.0.1"], [ip |-> "10.0.0.1"]}
    /\ result.forwarded_for = <<<<"8.8.8.8">>, <<Space, "127.0.0.1">>>>
    /\ result.remote = <<"10.0.0.1">>
    /\ result.value = <<"8.8.8.8">>

\* the peer whose trust decides: an unparsable REMOTE_ADDR counts as 127.0.0.1
DirectPeer ==
    LET ip == ip_address(result.environ["REMOTE_ADDR"])
    IN  IF Raised(ip) THEN [ip |-> "127.0.0.1"] ELSE ip

\* C30: HTTP_HOST and wsgi.url_scheme are overridden from X-Forwarded-Host
\* and X-Forwarded-Proto only when the direct peer is trusted, where a
\* REMOTE_ADDR that is no IP address counts as 127.0.0.1; without a
\* REMOTE_ADDR, or with an empty one, the environ is left as it was, without
\* backup keys.
C30_TrustedPeerOnly ==
    result.op = "update_environ" =>
        IF ~Updated THEN environ = result.environ
        ELSE LET host == env(result.environ, "HTTP_X_FORWARDED_HOST", <<>>)
                 proto == env(result.environ, "HTTP_X_FORWARDED_PROTO", <<>>)
             IN  /\ BackupKeys \subseteq DOMAIN environ
                 /\ IF DirectPeer \in fix.trusted /\ host # <<>>
                    THEN environ["HTTP_HOST"] = host
                    ELSE Kept("HTTP_HOST")
                 /\ IF DirectPeer \in fix.trusted /\ proto # <<>>
                    THEN environ["wsgi.url_scheme"] =
                            IF proto \in {<<"https">>, <<"HTTPS">>}
                            THEN <<"https">> ELSE <<"http">>
                    ELSE Kept("wsgi.url_scheme")

\* a peer that is no IP address had its forwarded host and scheme taken over
\* where 127.0.0.1 is trusted
C30_Witness ==
    /\ Updated
    /\ result.environ["REMOTE_ADDR"] = <<"unknown">>
    /\ fix.trusted = {[ip |-> "127.0.0.1"]}
    /\ result.environ["wsgi.url_scheme"] = <<"http">>
    /\ env(environ, "HTTP_HOST", NoneOrg) = <<"untrusted.com">>
    /\ environ["wsgi.url_scheme"] = <<"https">>

----------------------------------------------------------------------------
(* requests.rest.Client and requests.auth.AuthAppClient *)

(***************************************************************************)
(* A URL, a path and a path part are str values, modelled as sequences of  *)
(* tokens: "/", ">", "%" and "?" are tokens of their own, a run of         *)
(* unreserved characters (a host with its scheme, a name, the two hex      *)
(* digits of an escape) is one token.  None is NoneOrg, "" is <<>>.        *)
(***************************************************************************)

\* how many positional path parts a request is given at most
MaxParts == 2

Slash == "/"
Percent == "%"

\* urllib.parse.quote_plus of one token: reserved characters become an
\* escape, which is "%" followed by two hex digits; a blank becomes "+"
QuoteToken(c) ==
    CASE c = Sep -> <<Percent, "3E">>
      [] c = Slash -> <<Percent, "2F">>
      [] c = Percent -> <<Percent, "25">>
      [] c = "?" -> <<Percent, "3F">>
      [] c = Space -> <<"+">>
      [] OTHER -> <<c>>

\* urllib.parse.quote_plus(string)
RECURSIVE quote_plus(_)
quote_plus(string) ==
    IF string = <<>> THEN <<>>
    ELSE QuoteToken(Head(string)) \o quote_plus(Tail(string))

\* "/".join(parts)
RECURSIVE JoinSlash(_)
JoinSlash(parts) ==
    IF parts = <<>> THEN <<>>
    ELSE IF Len(parts) = 1 THEN parts[1]
    ELSE parts[1] \o <<Slash>> \o JoinSlash(Tail(parts))

\* str.startswith(prefix) and str.endswith(suffix)
startswith(string, prefix) ==
    /\ Len(string) >= Len(prefix)
    /\ SubSeq(string, 1, Len(prefix)) = prefix

endswith(string, suffix) ==
    /\ Len(string) >= Len(suffix)
    /\ SubSeq(string, Len(string) - Len(suffix) + 1, Len(string)) = suffix

URLRequired == [exc |-> "URLRequired"]
HTTPError == [exc |-> "HTTPError"]

\* Client.__init__(base_url)
Client_init(base_url) ==
    [_base_url |-> IF ~endswith(base_url, <<Slash>>) THEN base_url \o <<Slash>>
                   ELSE base_url]

\* AuthAppClient.__init__(base_url, api_key)
AuthAppClient_init(base_url, api_key) ==
    [_base_url |-> Client_init(base_url)._base_url, api_key |-> api_key]

\* Client.request, lines 37-45: the url handed to the session's request, or
\* the exception raised before it
RequestUrl(self, path_parts, path, url) ==
    LET path1 == IF ~TruthyValue(path) /\ path_parts # <<>>
                 THEN JoinSlash([i \in DOMAIN path_parts |-> quote_plus(path_parts[i])])
                 ELSE path
    IN  IF TruthyValue(url)
        THEN IF ~startswith(url, self._base_url) THEN URLRequired
             ELSE [url |-> url]
        ELSE IF TruthyValue(path1) THEN [url |-> self._base_url \o path1]
        ELSE [url |-> url]

\* Client.request: the calls of the session's request after the call, and
\* the response returned or the exception raised; status is the status of
\* the response the server gives
Client_request(self, calls, method, path_parts, path, url, status) ==
    LET r == RequestUrl(self, path_parts, path, url)
    IN  IF Raised(r) THEN [calls |-> calls, value |-> r]
        ELSE [calls |-> Append(calls, [method |-> method, url |-> r.url]),
              value |-> IF status >= 400 THEN HTTPError
                        ELSE [status |-> status, json |-> [token |-> "TOKEN"]]]

\* AuthAppClient.get_token(organization)
get_token(self, calls, organization, status) ==
    LET quoted == quote_plus(organization)
        r == Client_request(self, calls, "POST", <<<<"token">>, quoted>>,
                            NoneOrg, NoneOrg, status)
    IN  IF Raised(r.value) THEN r
        ELSE [calls |-> r.calls, value |-> [token |-> r.value.json.token]]

BaseHost == "https://base.example.org"

BaseUrls == {<<BaseHost>>, <<BaseHost, Slash>>, <<BaseHost, Slash, "v1">>}
AuthAppUrls == {<<"https://auth.impact-stack.org", Slash, "v1">>}
ApiKeys == {"api-key"}

Urls == {NoneOrg, <<>>, <<BaseHost>>, <<BaseHost, Slash>>,
         <<BaseHost, Slash, "v1", Slash, "object">>,
         <<BaseHost, ".other.example.org", Slash>>,
         <<"https://other.example.org">>}
PathArgs == {NoneOrg, <<>>, <<"test", "?", "path">>}
PathParts == {<<"part">>, <<"escaped", "?", Slash>>, <<"parent", Sep, "org1">>}
PathPartLists == ListsUpTo(PathParts, MaxParts)
Verbs == {"GET", "POST"}
Statuses == {200, 404}

RestInit ==
    /\ session = NoSession
    /\ token = NoToken
    /\ result = NoResult
    /\ pc = "idle"
    /\ route = NoRoute
    /\ request = NoRequest
    /\ manager = "default"
    /\ g = NoUser
    /\ gpc = "off"
    /\ log = <<>>
    /\ response = NoResponse
    /\ callbacks = <<>>
    /\ fix = NoFix
    /\ environ = NoEnviron
    /\ client = NoClient
    /\ mock_calls = <<>>
    /\ app = NoApp
    /\ row = NoRow
    /\ connection = NoConnection

\* rest.Client(base_url)
NewClient ==
    /\ client = NoClient
    /\ \E base_url \in BaseUrls : client' = Client_init(base_url)
    /\ UNCHANGED <<session, token, result, pc, gvars>>
    /\ UNCHANGED <<fix, environ, mock_calls, app, row, connection>>

\* AuthAppClient(base_url, api_key)
NewAuthAppClient ==
    /\ client = NoClient
    /\ \E base_url \in AuthAppUrls, api_key \in ApiKeys :
        client' = AuthAppClient_init(base_url, api_key)
    /\ UNCHANGED <<session, token, result, pc, gvars>>
    /\ UNCHANGED <<fix, environ, mock_calls, app, row, connection>>

\* client.request(method, *path_parts, path=path, url=url)
Request ==
    /\ client # NoClient
    /\ Idle
    /\ \E method \in Verbs, path_parts \in PathPartLists, path \in PathArgs,
          url \in Urls, status \in Statuses :
        LET r == Client_request(client, mock_calls, method, path_parts, path,
                                url, status)
        IN  /\ mock_calls' = r.calls
            /\ result' = [op |-> "request", path_parts |-> path_parts,
                          path |-> path, url |-> url, value |-> r.value]
    /\ UNCHANGED <<session, token, pc, gvars>>
    /\ UNCHANGED <<fix, environ, client, app, row, connection>>

\* client.get_token(organization)
GetToken ==
    /\ client # NoClient
    /\ "api_key" \in DOMAIN client
    /\ Idle
    /\ \E organization \in Paths, status \in Statuses :
        LET r == get_token(client, mock_calls, organization, status)
        IN  /\ mock_calls' = r.calls
            /\ result' = [op |-> "get_token", organization |-> organization,
                          value |-> r.value]
    /\ UNCHANGED <<session, token, pc, gvars>>
    /\ UNCHANGED <<fix, environ, client, app, row, connection>>

RestNext ==
    \/ NewClient
    \/ NewAuthAppClient
    \/ Request
    \/ GetToken

RestSpec == RestInit /\ [][RestNext]_vars

(* Claims about the REST clients *)

\* C23: the client sends nothing outside its base URL: a request given a
\* url that does not start with the base URL (which ends with "/") raises
\* URLRequired without a call of the session's request, and every URL that
\* is passed to the session's request starts with the base URL.
C23_OnlyBaseUrl ==
    /\ \A i \in DOMAIN mock_calls :
        startswith(mock_calls[i].url, client._base_url)
    /\ (/\ result.op = "request"
        /\ TruthyValue(result.url)
        /\ ~startswith(result.url, client._base_url)) =>
            /\ result.value = URLRequired
            /\ mock_calls = <<>>

\* what holds of the URLs passed on: a URL other than None and "" starts
\* with the base URL, and a foreign url is refused before the session is used
C23_NoForeignUrl ==
    /\ \A i \in DOMAIN mock_calls :
        \/ startswith(mock_calls[i].url, client._base_url)
        \/ ~TruthyValue(mock_calls[i].url)
    /\ (/\ result.op = "request"
        /\ TruthyValue(result.url)
        /\ ~startswith(result.url, client._base_url)) =>
            /\ result.value = URLRequired
            /\ mock_calls = <<>>

\* C24: a request with no url, no path and no path parts is sent to the API
\* root, the base URL with its trailing slash.
C24_RootRequest ==
    (/\ result.op = "request"
     /\ result.url = NoneOrg
     /\ result.path = NoneOrg
     /\ result.path_parts = <<>>) =>
        /\ Len(mock_calls) = 1
        /\ mock_calls[1].url = client._base_url

\* C25: get_token(organization) posts to <base_url>/token/<organization>
\* with the organization percent-encoded once, for every organization path.
C25_TokenUrl ==
    result.op = "get_token" =>
        /\ Len(mock_calls) = 1
        /\ mock_calls[1].method = "POST"
        /\ mock_calls[1].url =
            client._base_url \o <<"token", Slash>> \o quote_plus(result.organization)

\* what holds of get_token: the organization is encoded twice, which shows
\* for a path with a separator only
C25_EncodedTwice ==
    result.op = "get_token" =>
        /\ Len(mock_calls) = 1
        /\ mock_calls[1].method = "POST"
        /\ mock_calls[1].url =
            client._base_url \o <<"token", Slash>>
                \o quote_plus(quote_plus(result.organization))

----------------------------------------------------------------------------
(* flask.BaseApp.load_config *)

(***************************************************************************)
(* A config is a dict from keys to values.  A key and the name of an       *)
(* environment variable are str values, modelled as the sequence of their  *)
(* tokens ("FLASK", "_", "A"), so that the prefix test and the cut         *)
(* key[len(prefix):] of from_prefixed_env are computed.  A config value is *)
(* written as its Python literal, so that the str 'x' and what json.loads  *)
(* makes of the text of an environment variable are told apart.            *)
(***************************************************************************)

Underscore == "_"

\* Flask's default_config, as far as a source may override it
DefaultConfig == (<<"TESTING">> :> "False")

\* str.isupper() of a key
isupper(key) == key \in {<<"A">>, <<"B">>, <<"TESTING">>, <<"SETTINGS">>}

\* dict.update(other)
Update(d, other) ==
    [k \in DOMAIN d \cup DOMAIN other |-> IF k \in DOMAIN other THEN other[k] ELSE d[k]]

\* only the upper-case names of a module or an object are config keys
UpperOnly(d) == [k \in {k \in DOMAIN d : isupper(k)} |-> d[k]]

\* Config.from_pyfile(filename, silent=True): a missing file sets nothing
from_pyfile(config, files, filename) ==
    IF filename \in DOMAIN files THEN Update(config, UpperOnly(files[filename]))
    ELSE config

\* Config.from_object(obj)
from_object(config, obj) == Update(config, UpperOnly(obj))

\* json.loads(text), with the text kept as a str when it is no JSON
loads(text) ==
    CASE text = "1" -> "1"
      [] text = "true" -> "True"
      [] text = "env config" -> "'env config'"
      [] text = "FOO config" -> "'FOO config'"
      [] text = "settings/overrides.py" -> "'settings/overrides.py'"
      [] text = "settings/missing.py" -> "'settings/missing.py'"
      [] OTHER -> "'?'"

\* Config.from_prefixed_env(prefix): every variable whose name starts with
\* the prefix and "_" sets the key that follows
from_prefixed_env(config, os_environ, prefix) ==
    LET full == <<prefix, Underscore>>
        names == {n \in DOMAIN os_environ : startswith(n, full)}
        key(n) == SubSeq(n, Len(full) + 1, Len(n))
        loaded == [k \in {key(n) : n \in names} |->
                    loads(os_environ[CHOOSE n \in names : key(n) = k])]
    IN  Update(config, loaded)

FlaskSettings == <<"FLASK", Underscore, "SETTINGS">>

\* variant of load_config: the environment is read before the config
load_config_env_first(files, os_environ, config, env_prefix) ==
    LET settings_file == env(os_environ, FlaskSettings, "settings/base.py")
        c1 == from_pyfile(DefaultConfig, files, settings_file)
        c2 == from_prefixed_env(c1, os_environ, env_prefix)
    IN  IF config.type = "dict" THEN Update(c2, config.val)
        ELSE IF config.type = "object" THEN from_object(c2, config.val)
        ELSE c2

\* BaseApp.load_config(config, env_prefix): the config of the app after it
load_config(files, os_environ, config, env_prefix) ==
    LET settings_file == env(os_environ, FlaskSettings, "settings/base.py")
        c1 == from_pyfile(DefaultConfig, files, settings_file)
        c2 == IF config.type = "dict" THEN Update(c1, config.val)
              ELSE IF config.type = "object" THEN from_object(c1, config.val)
              ELSE c1
    IN  from_prefixed_env(c2, os_environ, env_prefix)

\* the settings files of the application directory
BaseSettings == (<<"A">> :> "'My default setting'" @@ <<"B">> :> "'base only'"
                    @@ <<"lower">> :> "'module local'")
OverrideSettings == (<<"A">> :> "'My override setting'")

FileSystems ==
    {("settings/base.py" :> BaseSettings @@ "settings/overrides.py" :> OverrideSettings),
     ("settings/overrides.py" :> OverrideSettings)}

PyObject(attrs) == [type |-> "object", val |-> attrs]

\* the config keyword of the constructor
ConfigArgs ==
    {PyNone, PyDict(<< >>),
     PyDict(<<"A">> :> "'My setting'"),
     PyDict(<<"B">> :> "'My setting'" @@ <<"lower">> :> "'kept'"),
     PyObject(<<"A">> :> "'My setting'" @@ <<"lower">> :> "'dropped'")}

EnvPrefixes == {"FLASK", "FOO"}

\* os.environ: the variables that are set, with their text
EnvNames == {FlaskSettings, <<"FLASK", Underscore, "A">>, <<"FLASK", Underscore, "B">>,
             <<"FOO", Underscore, "A">>}

EnvTexts(name) ==
    CASE name = FlaskSettings -> {"settings/overrides.py", "settings/missing.py"}
      [] name = <<"FLASK", Underscore, "A">> -> {"env config", "1"}
      [] name = <<"FLASK", Underscore, "B">> -> {"true"}
      [] name = <<"FOO", Underscore, "A">> -> {"FOO config"}

OsEnvirons ==
    UNION {{e \in [names -> {"env config", "1", "true", "FOO config",
                             "settings/overrides.py", "settings/missing.py"}] :
                \A n \in names : e[n] \in EnvTexts(n)} :
            names \in SUBSET EnvNames}

ConfigInit ==
    /\ session = NoSession
    /\ token = NoToken
    /\ result = NoResult
    /\ pc = "idle"
    /\ route = NoRoute
    /\ request = NoRequest
    /\ manager = "default"
    /\ g = NoUser
    /\ gpc = "off"
    /\ log = <<>>
    /\ response = NoResponse
    /\ callbacks = <<>>
    /\ fix = NoFix
    /\ environ = NoEnviron
    /\ client = NoClient
    /\ mock_calls = <<>>
    /\ app = NoApp
    /\ row = NoRow
    /\ connection = NoConnection

\* BaseApp(name, config=config) in a process with the environment os_environ
\* and the settings files of the application directory
BaseApp_init ==
    /\ app = NoApp
    /\ Idle
    /\ \E files \in FileSystems, os_environ \in OsEnvirons,
          config \in ConfigArgs, env_prefix \in EnvPrefixes :
        /\ app' = [config |-> load_config(files, os_environ, config, env_prefix)]
        /\ result' = [op |-> "load_config", files |-> files,
                      os_environ |-> os_environ, config |-> config,
                      env_prefix |-> env_prefix]
    /\ UNCHANGED <<session, token, pc, gvars>>
    /\ UNCHANGED <<fix, environ, client, mock_calls, row, connection>>

ConfigNext ==
    \/ BaseApp_init

ConfigSpec == ConfigInit /\ [][ConfigNext]_vars

(* Claims about load_config *)

\* what each source sets in a call of load_config: the settings file named
\* by FLASK_SETTINGS, the config argument, the prefixed environment
SetByFile ==
    LET name == IF FlaskSettings \in DOMAIN result.os_environ
                THEN result.os_environ[FlaskSettings] ELSE "settings/base.py"
    IN  IF name \in DOMAIN result.files THEN UpperOnly(result.files[name])
        ELSE << >>

SetByConfig ==
    CASE result.config.type = "dict" -> result.config.val
      [] result.config.type = "object" -> UpperOnly(result.config.val)
      [] OTHER -> << >>

SetByEnv ==
    LET name(k) == <<result.env_prefix, Underscore>> \o k
        keys == {k \in {<<"A">>, <<"B">>, <<"SETTINGS">>} :
                    name(k) \in DOMAIN result.os_environ}
    IN  [k \in keys |-> loads(result.os_environ[name(k)])]

\* C26: load_config applies the settings file named by FLASK_SETTINGS
\* (default settings/base.py), then the config dict or object, then the
\* environment variables with the prefix; for each key the last source that
\* sets it gives the value, and a key no later source sets keeps the value
\* of the earlier one.
C26_SourceOrder ==
    result.op = "load_config" =>
        /\ DOMAIN app.config = DOMAIN DefaultConfig \cup DOMAIN SetByFile
                                \cup DOMAIN SetByConfig \cup DOMAIN SetByEnv
        /\ \A k \in DOMAIN app.config :
            app.config[k] =
                IF k \in DOMAIN SetByEnv THEN SetByEnv[k]
                ELSE IF k \in DOMAIN SetByConfig THEN SetByConfig[k]
                ELSE IF k \in DOMAIN SetByFile THEN SetByFile[k]
                ELSE DefaultConfig[k]

\* all three sources set A and only the settings file sets B
C26_Witness ==
    /\ result.op = "load_config"
    /\ <<"A">> \in DOMAIN SetByFile
    /\ <<"A">> \in DOMAIN SetByConfig
    /\ <<"A">> \in DOMAIN SetByEnv
    /\ <<"B">> \in DOMAIN SetByFile
    /\ <<"B">> \notin DOMAIN SetByConfig \cup DOMAIN SetByEnv
    /\ result.env_prefix = "FOO"
    /\ app.config[<<"A">>] = "'FOO config'"
    /\ app.config[<<"B">>] = "'base only'"

----------------------------------------------------------------------------
(* sqlalchemy.DateTimeUTC *)

(***************************************************************************)
(* A datetime is its wall-clock reading and its tzinfo.  The reading is a  *)
(* count of half hours since datetime.min, the largest reading is          *)
(* datetime.max; a tzinfo is its UTC offset in half hours, and a naive     *)
(* datetime has the tzinfo NoTzinfo.  The instant a reading denotes is the *)
(* reading minus the offset.  Arithmetic that leaves the range of readings *)
(* raises OverflowError, as datetime arithmetic does.                      *)
(***************************************************************************)

\* the reading of datetime.max, datetime.min being 0
MaxWall == 30

NoTzinfo == [none |-> "tzinfo"]
timezone_utc == [utcoffset |-> 0]

\* UTC-01:00, UTC, UTC+01:00 (Europe/Vienna in winter), UTC+05:30
Offsets == {-2, 0, 2, 11}

datetime(wall, tzinfo) == [wall |-> wall, tzinfo |-> tzinfo]

DateTimes ==
    {datetime(w, [utcoffset |-> o]) : w \in 0..MaxWall, o \in Offsets}
        \cup {datetime(w, NoTzinfo) : w \in 0..MaxWall}

TypeError == [exc |-> "TypeError"]
OverflowError == [exc |-> "OverflowError"]

\* datetime.astimezone(tz) of an aware datetime
astimezone(value, tz) ==
    LET wall == value.wall - value.tzinfo.utcoffset + tz.utcoffset
    IN  IF wall \in 0..MaxWall THEN datetime(wall, tz) ELSE OverflowError

\* datetime.replace(tzinfo=tzinfo)
replace(value, tzinfo) == datetime(value.wall, tzinfo)

\* variant of process_bind_param: the timezone is dropped, not converted
process_bind_param_wall(value) ==
    IF value = PyNone THEN PyNone
    ELSE IF value.tzinfo # NoTzinfo THEN replace(value, NoTzinfo)
    ELSE TypeError

\* DateTimeUTC.process_bind_param
process_bind_param(value) ==
    IF value = PyNone THEN PyNone
    ELSE IF value.tzinfo # NoTzinfo
    THEN LET utc == astimezone(value, timezone_utc)
         IN  IF Raised(utc) THEN utc ELSE replace(utc, NoTzinfo)
    ELSE TypeError

\* DateTimeUTC.process_result_value
process_result_value(value) ==
    IF value = PyNone THEN PyNone ELSE replace(value, timezone_utc)

DateTimeInit ==
    /\ session = NoSession
    /\ token = NoToken
    /\ result = NoResult
    /\ pc = "idle"
    /\ route = NoRoute
    /\ request = NoRequest
    /\ manager = "default"
    /\ g = NoUser
    /\ gpc = "off"
    /\ log = <<>>
    /\ response = NoResponse
    /\ callbacks = <<>>
    /\ fix = NoFix
    /\ environ = NoEnviron
    /\ client = NoClient
    /\ mock_calls = <<>>
    /\ app = NoApp
    /\ row = NoRow
    /\ connection = NoConnection

\* a row is written: the value of the column passes process_bind_param
BindParam ==
    /\ row = NoRow
    /\ Idle
    /\ \E value \in DateTimes \cup {PyNone} :
        LET bound == process_bind_param(value)
        IN  /\ result' = [op |-> "process_bind_param", value |-> value,
                          bound |-> bound]
            /\ row' = IF Raised(bound) THEN row ELSE [created_at |-> bound]
    /\ UNCHANGED <<session, token, pc, gvars>>
    /\ UNCHANGED <<fix, environ, client, mock_calls, app, connection>>

\* the row is read back: the stored value passes process_result_value
ResultValue ==
    /\ row # NoRow
    /\ result.op = "process_bind_param"
    /\ result' = [op |-> "process_result_value", value |-> result.value,
                  stored |-> row.created_at,
                  loaded |-> process_result_value(row.created_at)]
    /\ UNCHANGED <<session, token, pc, gvars, ovars>>

DateTimeNext ==
    \/ BindParam
    \/ ResultValue

DateTimeSpec == DateTimeInit /\ [][DateTimeNext]_vars

(* Claims about DateTimeUTC *)

Aware(value) == value # PyNone /\ value.tzinfo # NoTzinfo

\* the instant a timezone-aware datetime denotes, as a UTC reading
Instant(value) == value.wall - value.tzinfo.utcoffset

\* the round trip of a value: it is stored as its naive UTC reading and
\* loaded as the same instant in UTC
RoundTrip ==
    /\ result.op = "process_bind_param" =>
        result.bound = datetime(Instant(result.value), NoTzinfo)
    /\ result.op = "process_result_value" =>
        /\ result.stored = datetime(Instant(result.value), NoTzinfo)
        /\ result.loaded.tzinfo = timezone_utc
        /\ Instant(result.loaded) = Instant(result.value)

\* C27: for every timezone-aware datetime v, with any UTC offset, the value
\* stored is the naive UTC wall time of v, and
\* process_result_value(process_bind_param(v)) is the same instant as v and
\* carries the UTC timezone.
C27_RoundTripAny ==
    (result.op \in {"process_bind_param", "process_result_value"}
        /\ Aware(result.value)) => RoundTrip

\* C27 for the datetimes whose UTC wall time is a datetime: the round trip
\* holds for them, and process_bind_param raises OverflowError for the
\* others, whose UTC reading lies before datetime.min or after datetime.max
C27_RoundTripInRange ==
    (result.op \in {"process_bind_param", "process_result_value"}
        /\ Aware(result.value)) =>
            IF Instant(result.value) \in 0..MaxWall THEN RoundTrip
            ELSE /\ result.op = "process_bind_param"
                 /\ result.bound = OverflowError
                 /\ row = NoRow

\* a datetime at UTC+05:30 was stored and loaded
C27_Witness ==
    /\ result.op = "process_result_value"
    /\ result.value = datetime(20, [utcoffset |-> 11])
    /\ result.stored = datetime(9, NoTzinfo)
    /\ result.loaded = datetime(9, timezone_utc)

----------------------------------------------------------------------------
(* flask_sqlalchemy.PingConnectionHandler *)

\* how many engine_connect events the engine fires at most
MaxConnects == 2

\* what connection.scalar(select([1])) does: it returns, or it raises a
\* DBAPIError with or without connection_invalidated, or another exception
DBAPIError(connection_invalidated) ==
    [exc |-> "DBAPIError", connection_invalidated |-> connection_invalidated]
TimeoutError == [exc |-> "TimeoutError"]
Returned == [returned |-> TRUE]

ScalarOutcomes == {Returned, DBAPIError(TRUE), DBAPIError(FALSE), TimeoutError}

\* variant of ping_connection: the ping is repeated after any DBAPIError
ping_connection_any_error(branch, pings) ==
    IF branch THEN Returned
    ELSE IF pings = <<>> THEN [do |-> "scalar"]
    ELSE IF Len(pings) = 1
    THEN IF ~Raised(pings[1]) THEN Returned
         ELSE IF pings[1].exc = "DBAPIError" THEN [do |-> "scalar"]
         ELSE pings[1]
    ELSE pings[2]

\* PingConnectionHandler.ping_connection(connection, branch), given the
\* outcomes of the pings issued so far: the next ping, the return, or the
\* exception that leaves the handler
ping_connection(branch, pings) ==
    IF branch THEN Returned
    ELSE IF pings = <<>> THEN [do |-> "scalar"]
    ELSE IF Len(pings) = 1
    THEN IF ~Raised(pings[1]) THEN Returned
         ELSE IF pings[1].exc = "DBAPIError"
         THEN IF pings[1].connection_invalidated THEN [do |-> "scalar"]
              ELSE pings[1]
         ELSE pings[1]
    ELSE pings[2]

PingInit ==
    /\ session = NoSession
    /\ token = NoToken
    /\ result = NoResult
    /\ pc = "idle"
    /\ route = NoRoute
    /\ request = NoRequest
    /\ manager = "default"
    /\ g = NoUser
    /\ gpc = "off"
    /\ log = <<>>
    /\ response = NoResponse
    /\ callbacks = <<>>
    /\ fix = NoFix
    /\ environ = NoEnviron
    /\ client = NoClient
    /\ mock_calls = <<>>
    /\ app = NoApp
    /\ row = NoRow
    /\ connection = [events |-> <<>>, at |-> "pool"]

\* the engine fires engine_connect for a connection or a branch of one
EngineConnect ==
    /\ connection.at = "pool"
    /\ Len(connection.events) < MaxConnects
    /\ \E branch \in BOOLEAN :
        connection' = [events |-> connection.events, at |-> "handler",
                       branch |-> branch, pings |-> <<>>]
    /\ UNCHANGED <<session, token, result, pc, gvars>>
    /\ UNCHANGED <<fix, environ, client, mock_calls, app, row>>

\* connection.scalar(select([1])), lines 27 and 39
Scalar ==
    /\ connection.at = "handler"
    /\ ping_connection(connection.branch, connection.pings) = [do |-> "scalar"]
    /\ \E outcome \in ScalarOutcomes :
        connection' = [connection EXCEPT !.pings = Append(@, outcome)]
    /\ UNCHANGED <<session, token, result, pc, gvars>>
    /\ UNCHANGED <<fix, environ, client, mock_calls, app, row>>

\* the handler returns or an exception leaves it
PingDone ==
    /\ connection.at = "handler"
    /\ ping_connection(connection.branch, connection.pings) # [do |-> "scalar"]
    /\ connection' =
        [events |-> Append(connection.events,
                        [branch |-> connection.branch, pings |-> connection.pings,
                         value |-> ping_connection(connection.branch,
                                                   connection.pings)]),
         at |-> "pool"]
    /\ UNCHANGED <<session, token, result, pc, gvars>>
    /\ UNCHANGED <<fix, environ, client, mock_calls, app, row>>

PingNext ==
    \/ EngineConnect
    \/ Scalar
    \/ PingDone

PingSpec == PingInit /\ [][PingNext]_vars

(* Claims about PingConnectionHandler *)

\* C29: no ping is issued on a branch; on a connection that is no branch
\* one SELECT 1 is issued; when it fails with a DBAPIError that reports
\* connection_invalidated the ping is issued once more, and any other error
\* leaves the handler without another ping; no connect event has more than
\* two pings.
C29_PingAtMostTwice ==
    /\ connection.at = "handler" => Len(connection.pings) <= 2
    /\ \A i \in DOMAIN connection.events :
        LET e == connection.events[i] IN
        IF e.branch THEN e.pings = <<>> /\ e.value = Returned
        ELSE /\ Len(e.pings) \in {1, 2}
             /\ Len(e.pings) = 2 <=> e.pings[1] = DBAPIError(TRUE)
             /\ e.value = e.pings[Len(e.pings)]

\* one connect event was answered by a stale connection and a second ping
\* that went through, another by an error that is no disconnect
C29_Witness ==
    /\ connection.at = "pool"
    /\ connection.events =
        <<[branch |-> FALSE, pings |-> <<DBAPIError(TRUE), Returned>>,
           value |-> Returned],
          [branch |-> FALSE, pings |-> <<DBAPIError(FALSE)>>,
           value |-> DBAPIError(FALSE)]>>

====
